---- MODULE Spec2Model ----
(***************************************************************************)
(* Model of app/tts/services.py: one invocation of an entry point          *)
(* (pipeline_text, pipeline_voice, transcribe_audio or                     *)
(* translate_text_bedrock) against nondeterministic providers (S3,         *)
(* Transcribe, Bedrock, Polly).  Every external call may raise; a call     *)
(* that returns takes its return value from a small set.                   *)
(*                                                                         *)
(* Strings that the code inspects (text, transcript) are sequences of      *)
(* one-character strings; object keys are tuples of their parts.           *)
(***************************************************************************)
EXTENDS Integers, Sequences, FiniteSets, TLC

\* ---------------------------------------------------------------- bounds
\* longest input text / provider text, in characters
MaxTextLen == 3
\* longest marker stream returned by the synthesis provider, in lines
MaxMarks == 2
\* longest time one get_transcription_job call takes, in seconds
MaxPollLatency == 2
NumInvocations == 2
NumEndRequests == 2

\* ------------------------------------------------------- program settings
\* services.py:27 reads MAX_TTS_TEXT_LEN from the environment (default 500);
\* the model runs the deployment MAX_TTS_TEXT_LEN=2.
MAX_TTS_TEXT_LEN == 2
\* services.py:28 (default 45, seconds)
TRANSCRIBE_WAIT_TIMEOUT == 45
\* services.py:29 (default 2.0, seconds)
TRANSCRIBE_POLL_INTERVAL == 2
\* services.py:30 (default "true")
NEURAL_ONLY_DEFAULT == TRUE
\* transcribe_audio: 10 * 1024 * 1024 bytes, counted in MiB here
MAX_AUDIO_MIB == 10

None == "None"

\* ------------------------------------------------------------------ text
Chars == {"a", " "}

Texts(n) == UNION {[1..k -> Chars] : k \in 0..n}

RECURSIVE LStrip(_)
LStrip(s) == IF s # <<>> /\ Head(s) = " " THEN LStrip(Tail(s)) ELSE s

RECURSIVE RStrip(_)
RStrip(s) == IF s # <<>> /\ s[Len(s)] = " " THEN RStrip(SubSeq(s, 1, Len(s) - 1)) ELSE s

\* str.strip()
Strip(s) == RStrip(LStrip(s))

\* Python truthiness of a str
Truthy(s) == s # <<>>

\* -------------------------------------------------------------- outcomes
ExcMsgs == {"e1", "e2"}

NoResult == [kind |-> "running", status |-> 0, detail |-> <<>>, value |-> <<>>]

HTTPException(code, detail) ==
    [kind |-> "HTTPException", status |-> code, detail |-> detail, value |-> <<>>]

\* an exception of a provider client that no handler of services.py catches
ProviderError(api, msg) ==
    [kind |-> "Exception", status |-> 0, detail |-> <<api, msg>>, value |-> <<>>]

Return(v) == [kind |-> "return", status |-> 0, detail |-> <<>>, value |-> v]

\* ------------------------------------------------------------- call log
NoText == <<>>
NoKey == <<>>
NoLang == <<>>

CallRec(api, text, voice, engine, key, lang) ==
    [api |-> api, text |-> text, voice |-> voice, engine |-> engine, key |-> key,
     lang |-> lang]

\* ------------------------------------------------------------- languages
Languages == {"en-US", "en-GB", "ms-MY"}

\* routes_languages.py: TARGET_LANGUAGES is CURRENT_LANGUAGES minus Malay
TARGET_LANGUAGES == Languages \ {"ms-MY"}

\* ----------------------------------------------------------------- state
VARIABLES
    op,           \* the entry point invoked
    req,          \* its arguments
    pc,           \* position of the invocation
    result,       \* what the entry point returned or raised
    calls,        \* the provider calls issued so far (status polls excepted)
    s3objs,       \* keys of the audio bucket this invocation knows to exist
    elapsed,      \* time.time() - t0 in the polling loop, seconds
    pollAt,       \* elapsed when the last get_transcription_job was issued
    pollSeen,     \* outcomes of the status polls so far
    in_key,       \* transcribe_audio: key of the uploaded input
    out_key,      \* key of the result document, or NoKey
    transcript,
    translated,
    catalog,      \* the voices the synthesis provider serves
    lv,           \* locals of _pick_voice's locale loop and _list_polly_voices_by_lang
    pool,         \* _pick_voice: the sorted pool
    probe_i,      \* _pick_voice: index of the voice being probed
    voice_id,
    engine,
    renders,      \* the audio and marker renders issued so far, in order
    audio_bytes,
    mark_lines,   \* the marker stream _synthesize_marks read, until the result is used
    visemes_raw,
    fetched,      \* history: an earlier request of this process got voices from
                  \* describe_voices, and less than a catalog TTL has passed since
    \* concurrent invocations of transcribe_s3 (one thread-pool worker each)
    jpc,          \* invocation -> its position in transcribe_s3
    job,          \* invocation -> its job_name, <<>> before it is drawn
    jkey,         \* invocation -> its out_key, <<>> while None
    jdoc,         \* invocation -> the key of the document it read, <<>> before
    jdeleted,     \* invocation -> the key it passed to _s3_delete, <<>> before
    jstatus,      \* invocation -> TranscriptionJobStatus of its job at the provider
    bucket,       \* the keys in AWS_S3_BUCKET_AUDIO
    \* concurrent requests on one document of db.sessions
    session,      \* the document: exists, user_id, ended_at (0 while None)
    rpc,          \* request -> its position in the end_session route
    ruser,        \* request -> current_user["_id"]
    rsess,        \* request -> the document find_one returned to it
    rresult,      \* request -> its response
    ended_writes, \* history: the update_one calls that set ended_at so far
    now           \* datetime.now(timezone.utc)

inVars == <<op, req, fetched>>
pollVars == <<elapsed, pollAt, pollSeen, in_key, out_key>>
pickVars == <<catalog, lv, pool, probe_i>>
synthVars == <<renders, audio_bytes, mark_lines, visemes_raw>>

jobVars == <<jpc, job, jkey, jdoc, jdeleted, jstatus, bucket>>
sessVars == <<session, rpc, ruser, rsess, rresult, ended_writes, now>>
ttsVars == <<inVars, pc, result, calls, s3objs, pollVars, transcript, translated, pickVars,
             voice_id, engine, synthVars>>

vars == <<ttsVars, jobVars, sessVars>>

\* uuid.uuid4().hex: one opaque token per use
InUuid == "u1"
JobUuid == "u2"
OutUuid == "u3"

job_name == "job-" \o JobUuid

Finish(r) == /\ result' = r
             /\ pc' = "done"

\* --------------------------------------------------------- S3 helpers
DeleteCall(key) == CallRec("s3.delete_object", NoText, None, None, key, NoLang)

\* _s3_delete: the delete is issued; an exception of the client is swallowed,
\* and then the object stays.
_s3_delete(key, deleted) ==
    /\ calls' = calls \cup {DeleteCall(key)}
    /\ s3objs' = IF deleted THEN s3objs \ {key} ELSE s3objs

\* mutant: transcribe_s3 deletes the audio it was given, as transcribe_audio does
DeleteInputOfEveryCaller(deleted) ==
    _s3_delete(IF op = "transcribe_audio" THEN in_key ELSE <<req.bucket, req.key>>, deleted)

\* the deletes of transcribe_audio that transcribe_s3 does not have
DeleteInput(deleted) ==
    IF op = "transcribe_audio"
    THEN _s3_delete(in_key, deleted)
    ELSE /\ deleted
         /\ UNCHANGED <<calls, s3objs>>

\* ------------------------------------------------------- transcription
PendingStatuses == {"QUEUED", "IN_PROGRESS"}
FailureReasons == {None, "bad media"}

\* what list_objects_v2(Prefix=job_name) can return: keys that start with job_name
Listings == {<<>>, <<<<job_name, ".json">>>>, <<<<job_name, ".tmp">>>>,
             <<<<job_name, ".tmp">>, <<job_name, ".json">>>>}

\* the first key of the listing that ends with ".json"
RECURSIVE FirstJson(_)
FirstJson(listing) ==
    IF listing = <<>> THEN NoKey
    ELSE IF Head(listing)[2] = ".json" THEN Head(listing)
    ELSE FirstJson(Tail(listing))

\* the bodies get_object can return for the result document
TranscriptTexts == {<<>>, <<" ">>, <<"a">>, <<"a", " ">>}
ResultDocs == {[json |-> FALSE, transcripts |-> <<>>],
               [json |-> TRUE, transcripts |-> <<>>]}
              \cup {[json |-> TRUE, transcripts |-> <<t>>] : t \in TranscriptTexts}

\* transcribe_audio up to the upload of the input
TranscribeAudioBegin ==
    /\ pc = "transcribe_audio"
    /\ UNCHANGED <<jobVars, sessVars, inVars, elapsed, pollAt, pollSeen, out_key, transcript, translated,
                   pickVars, voice_id, engine, synthVars>>
    /\ IF req.content_mib = 0
       THEN /\ Finish(HTTPException(400, <<"Empty audio file.">>))
            /\ UNCHANGED <<calls, s3objs, in_key>>
       ELSE IF req.content_mib > MAX_AUDIO_MIB
       THEN /\ Finish(HTTPException(413, <<"Audio file too large (>10MB).">>))
            /\ UNCHANGED <<calls, s3objs, in_key>>
       ELSE LET k == <<"transcribe/in/", InUuid, req.ext>> IN
            /\ in_key' = k
            /\ calls' = calls \cup {CallRec("s3.put_object", NoText, None, None, k, NoLang)}
            /\ \/ /\ s3objs' = s3objs \cup {k}
                  /\ pc' = "start_job"
                  /\ UNCHANGED result
               \/ \E m \in ExcMsgs :
                     /\ Finish(ProviderError("s3.put_object", m))
                     /\ UNCHANGED s3objs

\* transcribe_s3 up to the argument check
TranscribeS3Begin ==
    /\ pc = "transcribe_s3"
    /\ UNCHANGED <<jobVars, sessVars, inVars, calls, s3objs, pollVars, transcript, translated, pickVars,
                   voice_id, engine, synthVars>>
    /\ IF req.bucket = "" \/ req.key = ""
       THEN Finish(HTTPException(400, <<"S3 bucket/key are required for transcription.">>))
       ELSE /\ pc' = "start_job"
            /\ UNCHANGED result

\* lang_code_hint or "en-US"
LanguageCode == IF req.current_lang = "" THEN "en-US" ELSE req.current_lang

StartJobCall ==
    CallRec("transcribe.start_transcription_job", NoText, None, None,
            IF op = "transcribe_audio" THEN in_key ELSE <<req.bucket, req.key>>,
            <<LanguageCode>>)

\* start_transcription_job; t0 = time.time()
StartJob ==
    /\ pc = "start_job"
    /\ UNCHANGED <<jobVars, sessVars, inVars, pollAt, pollSeen, in_key, out_key, transcript, translated,
                   pickVars, voice_id, engine, synthVars>>
    /\ \/ /\ calls' = calls \cup {StartJobCall}
          /\ elapsed' = 0
          /\ pc' = "loop"
          /\ UNCHANGED <<result, s3objs>>
       \/ \E m \in ExcMsgs, deleted \in BOOLEAN :
             /\ UNCHANGED elapsed
             /\ IF op = "transcribe_audio"
                THEN /\ calls' = calls \cup {StartJobCall, DeleteCall(in_key)}
                     /\ s3objs' = IF deleted THEN s3objs \ {in_key} ELSE s3objs
                     /\ Finish(HTTPException(500, <<"Transcribe start failed: ", m>>))
                ELSE /\ deleted
                     /\ calls' = calls \cup {StartJobCall}
                     /\ UNCHANGED s3objs
                     /\ Finish(HTTPException(500, <<"Transcribe start failed (S3): ", m>>))

\* while time.time() - t0 < TRANSCRIBE_WAIT_TIMEOUT
LoopGuard(t) == t < TRANSCRIBE_WAIT_TIMEOUT

\* the loop condition; when it holds, get_transcription_job is issued
LoopCheck ==
    /\ pc = "loop"
    /\ UNCHANGED <<jobVars, sessVars, inVars, result, calls, s3objs, elapsed, pollSeen, in_key, out_key,
                   transcript, translated, pickVars, voice_id, engine, synthVars>>
    /\ IF LoopGuard(elapsed)
       THEN /\ pc' = "poll"
            /\ pollAt' = elapsed
       ELSE /\ pc' = "after_loop"
            /\ UNCHANGED pollAt

\* mutant: COMPLETED does not leave the loop
PollReturnKeepsPolling ==
    /\ pc = "poll"
    /\ UNCHANGED <<jobVars, sessVars, inVars, pollAt, in_key, out_key, transcript, translated, pickVars,
                   voice_id, engine, synthVars>>
    /\ \E d \in 0..MaxPollLatency :
         /\ elapsed' = elapsed + d
         /\ \/ \E m \in ExcMsgs :
                  /\ pollSeen' = pollSeen \cup {"raised"}
                  /\ Finish(ProviderError("transcribe.get_transcription_job", m))
                  /\ UNCHANGED <<calls, s3objs>>
            \/ \E st \in PendingStatuses \cup {"COMPLETED"} :
                  /\ pollSeen' = pollSeen \cup {st}
                  /\ pc' = "sleep"
                  /\ UNCHANGED <<result, calls, s3objs>>
            \/ \E reason \in FailureReasons, deleted \in BOOLEAN :
                  /\ pollSeen' = pollSeen \cup {"FAILED"}
                  /\ DeleteInput(deleted)
                  /\ Finish(HTTPException(422, <<"Transcription failed: ", reason>>))

\* get_transcription_job answers, d seconds after it was issued
PollReturn ==
    /\ pc = "poll"
    /\ UNCHANGED <<jobVars, sessVars, inVars, pollAt, in_key, out_key, transcript, translated, pickVars,
                   voice_id, engine, synthVars>>
    /\ \E d \in 0..MaxPollLatency :
         /\ elapsed' = elapsed + d
         /\ \/ \E m \in ExcMsgs :
                  /\ pollSeen' = pollSeen \cup {"raised"}
                  /\ Finish(ProviderError("transcribe.get_transcription_job", m))
                  /\ UNCHANGED <<calls, s3objs>>
            \/ \E st \in PendingStatuses :
                  /\ pollSeen' = pollSeen \cup {st}
                  /\ pc' = "sleep"
                  /\ UNCHANGED <<result, calls, s3objs>>
            \/ /\ pollSeen' = pollSeen \cup {"COMPLETED"}
               /\ pc' = "list"
               /\ UNCHANGED <<result, calls, s3objs>>
            \/ \E reason \in FailureReasons, deleted \in BOOLEAN :
                  /\ pollSeen' = pollSeen \cup {"FAILED"}
                  /\ DeleteInput(deleted)
                  /\ Finish(HTTPException(422, <<"Transcription failed: ", reason>>))

\* time.sleep(TRANSCRIBE_POLL_INTERVAL)
Sleep ==
    /\ pc = "sleep"
    /\ elapsed' = elapsed + TRANSCRIBE_POLL_INTERVAL
    /\ pc' = "loop"
    /\ UNCHANGED <<jobVars, sessVars, inVars, result, calls, s3objs, pollAt, pollSeen, in_key, out_key,
                   transcript, translated, pickVars, voice_id, engine, synthVars>>

\* status == "COMPLETED": list the result objects and leave the loop
ListResult ==
    /\ pc = "list"
    /\ UNCHANGED <<jobVars, sessVars, inVars, elapsed, pollAt, pollSeen, in_key, transcript, translated,
                   pickVars, voice_id, engine, synthVars>>
    /\ calls' = calls \cup {CallRec("s3.list_objects_v2", NoText, None, None,
                                    <<job_name>>, NoLang)}
    /\ \/ \E m \in ExcMsgs :
             /\ Finish(ProviderError("s3.list_objects_v2", m))
             /\ UNCHANGED <<s3objs, out_key>>
       \/ \E listing \in Listings :
             /\ out_key' = FirstJson(listing)
             /\ s3objs' = s3objs \cup {listing[i] : i \in 1..Len(listing)}
             /\ pc' = "after_loop"
             /\ UNCHANGED result

\* after the loop: transcribe_audio deletes its input; no out_key is the timeout
AfterLoop ==
    /\ pc = "after_loop"
    /\ UNCHANGED <<jobVars, sessVars, inVars, pollVars, transcript, translated, pickVars, voice_id, engine,
                   synthVars>>
    /\ \E deleted \in BOOLEAN :
         /\ DeleteInput(deleted)
         /\ IF out_key = NoKey
            THEN Finish(HTTPException(504, IF op = "transcribe_audio"
                                           THEN <<"Transcription timed out.">>
                                           ELSE <<"Transcription timed out (S3).">>))
            ELSE /\ pc' = "get_result"
                 /\ UNCHANGED result

\* data["results"]["transcripts"][0]["transcript"].strip(), "" when that raises
TranscriptOf(doc) == IF doc.transcripts = <<>> THEN <<>> ELSE Strip(doc.transcripts[1])

\* get_object, json.loads, _s3_delete(out_key), return the transcript; the
\* locals of transcribe_s3 end with its return into pipeline_voice
GetResult ==
    /\ pc = "get_result"
    /\ UNCHANGED <<jobVars, sessVars, inVars, in_key, translated, pickVars, voice_id, engine, synthVars>>
    /\ LET get == CallRec("s3.get_object", NoText, None, None, out_key, NoLang) IN
       \/ \E m \in ExcMsgs :
             /\ Finish(ProviderError("s3.get_object", m))
             /\ calls' = calls \cup {get}
             /\ UNCHANGED <<s3objs, transcript, elapsed, pollAt, pollSeen, out_key>>
       \/ \E doc \in ResultDocs, deleted \in BOOLEAN :
             IF ~doc.json
             THEN /\ deleted
                  /\ Finish(ProviderError("json.loads", "JSONDecodeError"))
                  /\ calls' = calls \cup {get}
                  /\ UNCHANGED <<s3objs, transcript, elapsed, pollAt, pollSeen, out_key>>
             ELSE /\ calls' = calls \cup {get, DeleteCall(out_key)}
                  /\ s3objs' = IF deleted THEN s3objs \ {out_key} ELSE s3objs
                  /\ transcript' = TranscriptOf(doc)
                  /\ IF op = "pipeline_voice"
                     THEN /\ pc' = "pipeline_voice_check"
                          /\ elapsed' = 0
                          /\ pollAt' = 0
                          /\ pollSeen' = {}
                          /\ out_key' = NoKey
                          /\ UNCHANGED result
                     ELSE /\ Finish(Return(TranscriptOf(doc)))
                          /\ UNCHANGED <<elapsed, pollAt, pollSeen, out_key>>

\* --------------------------------------------------------- translation
\* what bedrock.converse can answer
ProviderTexts == {<<>>, <<"a">>, <<" ", "b">>}

\* mutant: the guard on the empty text is gone
TranslateNeverSkips(text, tgt_lang) == FALSE

\* translate_text_bedrock: `if not text or not text.strip(): return ""`;
\* the target language plays no part
TranslateSkips(text, tgt_lang) == ~Truthy(text) \/ ~Truthy(Strip(text))

\* the text handed to translate_text_bedrock
SourceText == IF op = "pipeline_voice" THEN transcript ELSE req.text

AfterTranslate(t) ==
    /\ translated' = t
    /\ IF op = "translate_text_bedrock"
       THEN Finish(Return(t))
       ELSE /\ pc' = "pick_voice"
            /\ UNCHANGED result

\* translate_text_bedrock
Translate ==
    /\ pc = "translate"
    /\ UNCHANGED <<jobVars, sessVars, inVars, s3objs, pollVars, transcript, pickVars, voice_id, engine,
                   synthVars>>
    /\ IF TranslateSkips(SourceText, req.target_lang)
       THEN /\ AfterTranslate(<<>>)
            /\ UNCHANGED calls
       ELSE /\ calls' = calls \cup {CallRec("bedrock.converse", SourceText, None, None,
                                           NoKey, <<req.current_lang, req.target_lang>>)}
            /\ \/ \E t \in ProviderTexts : AfterTranslate(Strip(t))
               \/ \E m \in ExcMsgs :
                     /\ Finish(HTTPException(500, <<"Translation failed via Bedrock: ", m>>))
                     /\ UNCHANGED translated

\* ------------------------------------------------------ voice selection
_NEAR_LOCALE(lang) ==
    CASE lang = "zh-CN" -> <<"zh-TW">> [] lang = "zh-TW" -> <<"zh-CN">>
      [] lang = "es-ES" -> <<"es-MX">> [] lang = "es-MX" -> <<"es-ES">>
      [] lang = "en-GB" -> <<"en-US">> [] lang = "en-US" -> <<"en-GB">>
      [] lang = "pt-BR" -> <<"pt-PT">> [] lang = "pt-PT" -> <<"pt-BR">>
      [] OTHER -> <<>>

_DEFAULT_PRIORITY == <<"Matthew", "Joanna", "Takumi", "Mizuki", "Seoyeon", "Zhiyu",
                       "Amy", "Brian", "Emma", "Raveena", "Aditi", "Lupe", "Mia">>

\* _DEFAULT_PRIORITY.index(id) (0-based) if id in _DEFAULT_PRIORITY else 999
PriorityOf(id) ==
    IF \E i \in 1..Len(_DEFAULT_PRIORITY) : _DEFAULT_PRIORITY[i] = id
    THEN (CHOOSE i \in 1..Len(_DEFAULT_PRIORITY) : _DEFAULT_PRIORITY[i] = id) - 1
    ELSE 999

\* the voice ids of the model, in str order
VoiceIds == <<"Amy", "Joanna", "Matthew", "Zeina">>
IdRank(id) == CHOOSE i \in 1..Len(VoiceIds) : VoiceIds[i] = id

Voice(id, gender, lang) == [id |-> id, gender |-> gender, language_code |-> lang]

\* the catalogs the provider may hold
Catalogs == {<<>>,
             <<Voice("Amy", "Female", "en-GB")>>,
             <<Voice("Joanna", "Female", "en-US"), Voice("Zeina", "Female", "arb"),
               Voice("Matthew", "Male", "en-US")>>}

\* voices per describe_voices page
PageSize == 2

\* str.lower() on the gender strings of the model
Lower(g) == CASE g \in {"Male", "male", "MALE"} -> "male"
              [] g \in {"Female", "female", "FEMALE"} -> "female"
              [] OTHER -> g

RECURSIVE VoicesOf(_, _)
VoicesOf(seq, lang) ==
    IF seq = <<>> THEN <<>>
    ELSE IF Head(seq).language_code = lang
         THEN <<Head(seq)>> \o VoicesOf(Tail(seq), lang)
         ELSE VoicesOf(Tail(seq), lang)

\* what the provider lists for describe_voices(LanguageCode=q); q = "" is no filter
Served(q) == IF q = "" THEN catalog ELSE VoicesOf(catalog, q)

NoToken == [q |-> None, i |-> 0]

\* mutant: the sort key is the id alone
KeyLessById(c1, c2) == IdRank(c1.id) < IdRank(c2.id)

\* (c1 key) < (c2 key) for the key of pool.sort
KeyLess(c1, c2) ==
    \/ PriorityOf(c1.id) < PriorityOf(c2.id)
    \/ PriorityOf(c1.id) = PriorityOf(c2.id) /\ IdRank(c1.id) < IdRank(c2.id)

RECURSIVE Insert(_, _)
Insert(c, sorted) ==
    IF sorted = <<>> THEN <<c>>
    ELSE IF KeyLess(c, Head(sorted)) THEN <<c>> \o sorted
    ELSE <<Head(sorted)>> \o Insert(c, Tail(sorted))

\* list.sort(key=...): stable, ascending
RECURSIVE SortPool(_)
SortPool(seq) ==
    IF seq = <<>> THEN <<>>
    ELSE Insert(seq[Len(seq)], SortPool(SubSeq(seq, 1, Len(seq) - 1)))

RECURSIVE GenderMatches(_, _)
GenderMatches(seq, g) ==
    IF seq = <<>> THEN <<>>
    ELSE IF g # None /\ g # "" /\ Lower(Head(seq).gender) = Lower(g)
         THEN <<Head(seq)>> \o GenderMatches(Tail(seq), g)
         ELSE GenderMatches(Tail(seq), g)

\* mutant: the `or candidates` is missing
PoolOfGenderOnly(candidates, user_gender) ==
    SortPool(GenderMatches(candidates, user_gender))

\* [c for c in candidates if user_gender and ...] or candidates, then sorted
PoolOf(candidates, user_gender) ==
    LET m == GenderMatches(candidates, user_gender) IN
    SortPool(IF m # <<>> THEN m ELSE candidates)

Locales == <<req.target_lang>> \o _NEAR_LOCALE(req.target_lang)

\* the locals of one _list_polly_voices_by_lang(lang) call, li-th of _pick_voice
ListStart(li, lang) ==
    [li |-> li, lang |-> lang, try_specific |-> lang # "", next_token |-> NoToken,
     out |-> <<>>]

NoList == ListStart(0, "")

\* _pick_voice is entered; the provider holds one of the catalogs
PickVoiceBegin ==
    /\ pc = "pick_voice"
    /\ catalog' \in Catalogs
    /\ lv' = ListStart(1, Locales[1])
    /\ pc' = "list_voices"
    /\ UNCHANGED <<jobVars, sessVars, inVars, result, calls, s3objs, pollVars, transcript, translated, pool,
                   probe_i, voice_id, engine, synthVars>>

\* mutant: the near locales are passed over
ListReturnedSkipsNearLocales(out) ==
    IF lv.li <= Len(Locales) /\ out = <<>>
    THEN /\ lv' = ListStart(Len(Locales) + 1, "")
         /\ pc' = "list_voices"
    ELSE /\ lv' = [lv EXCEPT !.out = out]
         /\ pc' = "build_pool"

\* _list_polly_voices_by_lang returned out: the locale loop of _pick_voice goes on
ListReturned(out) ==
    IF lv.li <= Len(Locales) /\ out = <<>>
    THEN \* `if cand:` failed: next locale, or the unfiltered catalog
         /\ lv' = IF lv.li < Len(Locales)
                  THEN ListStart(lv.li + 1, Locales[lv.li + 1])
                  ELSE ListStart(Len(Locales) + 1, "")
         /\ pc' = "list_voices"
    ELSE /\ lv' = [lv EXCEPT !.out = out]
         /\ pc' = "build_pool"

\* mutant: a failed request flips between the filtered and the unfiltered
\* request instead of giving up
DescribeVoicesFlipsOnFailure ==
    /\ pc = "list_voices"
    /\ UNCHANGED <<jobVars, sessVars, inVars, result, s3objs, pollVars, transcript, translated, catalog,
                   pool, probe_i, voice_id, engine, synthVars>>
    /\ LET q == IF lv.try_specific THEN lv.lang ELSE ""
           tok == lv.next_token
           from == IF tok = NoToken THEN 1 ELSE tok.i
           served == Served(q)
           upto == IF from + PageSize - 1 < Len(served) THEN from + PageSize - 1
                   ELSE Len(served)
           page == SubSeq(served, from, upto)
           next == IF upto < Len(served) THEN [q |-> q, i |-> upto + 1] ELSE NoToken
       IN
       /\ calls' = calls \cup {CallRec("polly.describe_voices", NoText, None, None,
                                       NoKey, <<q>>)}
       /\ \/ \* except Exception
             IF lv.lang # ""
             THEN /\ lv' = [lv EXCEPT !.try_specific = ~lv.try_specific]
                  /\ pc' = "list_voices"
             ELSE ListReturned(lv.out)
          \/ \* the provider answers with the page at the token
             IF next = NoToken
             THEN ListReturned(lv.out \o page)
             ELSE /\ lv' = [lv EXCEPT !.out = lv.out \o page, !.next_token = next]
                  /\ pc' = "list_voices"

\* one iteration of the while loop of _list_polly_voices_by_lang
DescribeVoices ==
    /\ pc = "list_voices"
    /\ UNCHANGED <<jobVars, sessVars, inVars, result, s3objs, pollVars, transcript, translated, catalog,
                   pool, probe_i, voice_id, engine, synthVars>>
    /\ LET q == IF lv.try_specific THEN lv.lang ELSE ""
           tok == lv.next_token
           from == IF tok = NoToken THEN 1 ELSE tok.i
           served == Served(q)
           upto == IF from + PageSize - 1 < Len(served) THEN from + PageSize - 1
                   ELSE Len(served)
           page == SubSeq(served, from, upto)
           next == IF upto < Len(served) THEN [q |-> q, i |-> upto + 1] ELSE NoToken
       IN
       /\ calls' = calls \cup {CallRec("polly.describe_voices", NoText, None, None,
                                       NoKey, <<q>>)}
       /\ \/ \* except Exception
             IF lv.try_specific
             THEN /\ lv' = [lv EXCEPT !.try_specific = FALSE]
                  /\ pc' = "list_voices"
             ELSE ListReturned(lv.out)
          \/ \* the provider answers with the page at the token
             IF next = NoToken
             THEN ListReturned(lv.out \o page)
             ELSE /\ lv' = [lv EXCEPT !.out = lv.out \o page, !.next_token = next]
                  /\ pc' = "list_voices"

\* `if not pool: raise HTTPException(422)`
EmptyPoolResult(p) == HTTPException(422, <<"No Polly voices available.">>)

\* the gender filter and the sort; an empty pool raises
BuildPool ==
    /\ pc = "build_pool"
    /\ UNCHANGED <<jobVars, sessVars, inVars, calls, s3objs, pollVars, transcript, translated, catalog, lv,
                   voice_id, engine, synthVars>>
    /\ LET p == PoolOf(lv.out, req.user_gender) IN
       /\ pool' = p
       /\ IF p = <<>>
          THEN /\ Finish(EmptyPoolResult(p))
               /\ UNCHANGED probe_i
          ELSE /\ probe_i' = 1
               /\ pc' = "probe"
               /\ UNCHANGED result

\* neural_only if neural_only is not None else NEURAL_ONLY_DEFAULT
NeuralOnly == IF req.neural_only = None THEN NEURAL_ONLY_DEFAULT ELSE req.neural_only = "True"

\* mutant: a fixed default voice instead of the top of the pool
StaticDefaultChoice(p, neural_only) == <<"Joanna", "standard">>

\* _pick_voice after the scan found no neural-capable voice
NoNeuralChoice(p, neural_only) ==
    IF neural_only THEN <<p[1].id, "standard">> ELSE <<p[1].id, "standard">>

\* _pick_voice returns (v, e) to synthesize_with_visemes; its locals end
PickVoiceReturns(v, e) ==
    /\ voice_id' = v
    /\ engine' = e
    /\ pc' = "audio"
    /\ lv' = NoList
    /\ pool' = <<>>
    /\ probe_i' = 0

\* for c in pool: if _supports_neural(c["id"]): return c["id"], "neural"
Probe ==
    /\ pc = "probe"
    /\ UNCHANGED <<jobVars, sessVars, inVars, result, s3objs, pollVars, transcript, translated, catalog,
                   synthVars>>
    /\ calls' = calls \cup {CallRec("polly.synthesize_speech:probe", <<".">>,
                                    pool[probe_i].id, "neural", NoKey, NoLang)}
    /\ \/ PickVoiceReturns(pool[probe_i].id, "neural")
       \/ IF probe_i < Len(pool)
          THEN /\ probe_i' = probe_i + 1
               /\ UNCHANGED <<pc, lv, pool, voice_id, engine>>
          ELSE PickVoiceReturns(NoNeuralChoice(pool, NeuralOnly)[1],
                                NoNeuralChoice(pool, NeuralOnly)[2])

\* -------------------------------------------------------------- visemes
\* viseme_map.py: the symbol table
VISEME_MAP ==
    [sym \in {"p", "b", "m"} |-> "MBP"] @@ [sym \in {"t", "d", "l", "n"} |-> "L"] @@
    [sym \in {"f", "v"} |-> "FV"] @@ [sym \in {"s", "z"} |-> "E"] @@
    [sym \in {"S", "Z", "tS", "dZ"} |-> "WQ"] @@ [sym \in {"i", "I", "e"} |-> "E"] @@
    [sym \in {"E", "a", "A"} |-> "AA"] @@ [sym \in {"o", "O"} |-> "O"] @@
    [sym \in {"u", "U"} |-> "WQ"] @@ [sym \in {"@"} |-> "AA"]

\* VISEME_MAP.get(sym, "AX")
ShapeOf(sym) == IF sym \in DOMAIN VISEME_MAP THEN VISEME_MAP[sym] ELSE "AX"

\* mutant: events whose symbol is not in the table are dropped
RECURSIVE MapKnownVisemesOnly(_)
MapKnownVisemesOnly(raw) ==
    IF raw = <<>> THEN <<>>
    ELSE IF Head(raw).viseme \in DOMAIN VISEME_MAP
         THEN <<[time_ms |-> Head(raw).time_ms, shape |-> VISEME_MAP[Head(raw).viseme]]>>
              \o MapKnownVisemesOnly(Tail(raw))
         ELSE MapKnownVisemesOnly(Tail(raw))

\* [{"time_ms": evt.get("time_ms", 0), "shape": ...} for evt in visemes_raw]
_map_visemes_to_shapes(raw) ==
    [i \in 1..Len(raw) |-> [time_ms |-> raw[i].time_ms, shape |-> ShapeOf(raw[i].viseme)]]

\* ---------------------------------------------------------------- Polly
\* the lines of a marker stream: json |-> FALSE is a line json.loads rejects
MarkLine(json, type, time, value) ==
    [json |-> json, type |-> type, time |-> time, value |-> value]

MarkLines == {MarkLine(FALSE, "", 0, ""), MarkLine(TRUE, "word", 1, "hi"),
              MarkLine(TRUE, "viseme", 0, "p"), MarkLine(TRUE, "viseme", 2, "zz")}

MarkStreams == UNION {[1..k -> MarkLines] : k \in 0..MaxMarks}

\* mutant: the first line json.loads rejects ends the loop
RECURSIVE ParseMarksUntilMalformed(_)
ParseMarksUntilMalformed(lines) ==
    IF lines = <<>> \/ ~Head(lines).json THEN <<>>
    ELSE IF Head(lines).type = "viseme"
         THEN <<[time_ms |-> Head(lines).time, viseme |-> Head(lines).value]>>
              \o ParseMarksUntilMalformed(Tail(lines))
         ELSE ParseMarksUntilMalformed(Tail(lines))

\* the loop of _synthesize_marks over the lines of the stream
RECURSIVE ParseMarks(_)
ParseMarks(lines) ==
    IF lines = <<>> THEN <<>>
    ELSE IF Head(lines).json /\ Head(lines).type = "viseme"
         THEN <<[time_ms |-> Head(lines).time, viseme |-> Head(lines).value]>>
              \o ParseMarks(Tail(lines))
         ELSE ParseMarks(Tail(lines))

AudioPayloads == {"mp3-bytes"}

Render(kind, text, voice, eng) ==
    [kind |-> kind, text |-> text, voice |-> voice, engine |-> eng]

SynthCall(kind, text, voice, eng) ==
    CallRec("polly.synthesize_speech:" \o kind, text, voice, eng, NoKey, NoLang)

\* the engine the except branch of _synthesize_audio retries with, or None
\* when it re-raises
RetryEngine(eng) == IF eng = "neural" THEN "standard" ELSE None

\* the engine the except branch of _synthesize_marks retries with: it has none
MarksRetryEngine(eng) == None

\* the engine synthesize_with_visemes hands to _synthesize_marks: the one
\* _pick_voice returned, whatever engine rendered the audio
MarksEngine(requested, rendered) == requested

IssueRender(kind, eng) ==
    /\ calls' = calls \cup {SynthCall(kind, translated, voice_id, eng)}
    /\ renders' = Append(renders, Render(kind, translated, voice_id, eng))

\* mutant: the exception of a render is swallowed and the pipeline goes on
RenderFailureSwallowed ==
    /\ pc' = "save"
    /\ UNCHANGED result

RenderFails == \E m \in ExcMsgs : Finish(ProviderError("polly.synthesize_speech", m))

\* _synthesize_audio: the first synthesize_speech
Audio ==
    /\ pc = "audio"
    /\ UNCHANGED <<jobVars, sessVars, inVars, s3objs, pollVars, transcript, translated, pickVars, voice_id,
                   engine, mark_lines, visemes_raw>>
    /\ IssueRender("audio", engine)
    /\ \/ \E b \in AudioPayloads :
             /\ audio_bytes' = [bytes |-> b, engine |-> engine]
             /\ pc' = "marks"
             /\ UNCHANGED result
       \/ /\ RetryEngine(engine) # None
          /\ pc' = "audio_retry"
          /\ UNCHANGED <<result, audio_bytes>>
       \/ /\ RetryEngine(engine) = None
          /\ RenderFails
          /\ UNCHANGED audio_bytes

\* _synthesize_audio: the retry in the except branch
AudioRetry ==
    /\ pc = "audio_retry"
    /\ UNCHANGED <<jobVars, sessVars, inVars, s3objs, pollVars, transcript, translated, pickVars, voice_id,
                   engine, mark_lines, visemes_raw>>
    /\ IssueRender("audio", RetryEngine(engine))
    /\ \/ \E b \in AudioPayloads :
             /\ audio_bytes' = [bytes |-> b, engine |-> RetryEngine(engine)]
             /\ pc' = "marks"
             /\ UNCHANGED result
       \/ /\ RenderFails
          /\ UNCHANGED audio_bytes

\* _synthesize_marks: one synthesize_speech, its exception propagates
Marks ==
    /\ pc = "marks"
    /\ UNCHANGED <<jobVars, sessVars, inVars, s3objs, pollVars, transcript, translated, pickVars, voice_id,
                   engine, audio_bytes>>
    /\ IssueRender("marks", MarksEngine(engine, audio_bytes.engine))
    /\ \/ \E lines \in MarkStreams :
             /\ mark_lines' = lines
             /\ visemes_raw' = ParseMarks(lines)
             /\ pc' = "save"
             /\ UNCHANGED result
       \/ /\ MarksRetryEngine(MarksEngine(engine, audio_bytes.engine)) = None
          /\ RenderFails
          /\ UNCHANGED <<mark_lines, visemes_raw>>

\* ------------------------------------------------------------ pipelines
TtsKey == <<"tts/out/", req.target_lang, OutUuid, ".mp3">>

\* _s3_presigned_get(key)
PresignedUrl(key) == <<"https://">> \o key

\* mutant: the transcript field carries the translated text
ResponseWithTranslatedTranscript(url, source) ==
    [has |-> {"s3_url", "visemes_mapped", "source_text", "translated_text"}
             \cup (IF req.include_visemes_raw THEN {"visemes_raw"} ELSE {})
             \cup (IF req.return_transcript THEN {"transcript"} ELSE {}),
     s3_url |-> url,
     visemes_mapped |-> _map_visemes_to_shapes(visemes_raw),
     source_text |-> source,
     translated_text |-> translated,
     visemes_raw |-> IF req.include_visemes_raw THEN visemes_raw ELSE <<>>,
     transcript |-> IF req.return_transcript THEN translated ELSE <<>>]

\* the dict pipeline_text / pipeline_voice return; `has` are its keys
Response(url, source) ==
    [has |-> {"s3_url", "visemes_mapped", "source_text", "translated_text"}
             \cup (IF req.include_visemes_raw THEN {"visemes_raw"} ELSE {})
             \cup (IF req.return_transcript THEN {"transcript"} ELSE {}),
     s3_url |-> url,
     visemes_mapped |-> _map_visemes_to_shapes(visemes_raw),
     source_text |-> source,
     translated_text |-> translated,
     visemes_raw |-> IF req.include_visemes_raw THEN visemes_raw ELSE <<>>,
     transcript |-> IF req.return_transcript THEN source ELSE <<>>]

\* mutant: the length of the text is not checked
TextRejectedWhenBlank(text) ==
    IF ~Truthy(text) \/ ~Truthy(Strip(text)) THEN <<"Text is required.">> ELSE <<>>

\* pipeline_text: the two checks of the text; <<>> when it passes
TextRejected(text) ==
    IF ~Truthy(text) \/ ~Truthy(Strip(text)) THEN <<"Text is required.">>
    ELSE IF Len(text) > MAX_TTS_TEXT_LEN THEN <<"Text too long.">>
    ELSE <<>>

PipelineTextBegin ==
    /\ pc = "pipeline_text"
    /\ UNCHANGED <<jobVars, sessVars, inVars, calls, s3objs, pollVars, transcript, translated, pickVars,
                   voice_id, engine, synthVars>>
    /\ IF TextRejected(req.text) # <<>>
       THEN Finish(HTTPException(400, TextRejected(req.text)))
       ELSE /\ pc' = "translate"
            /\ UNCHANGED result

\* mutant: the check of the transcript is gone
TranscriptNeverEmpty(t) == FALSE

\* pipeline_voice: `if not transcript: raise`
EmptyTranscript(t) == ~Truthy(t)

PipelineVoiceCheck ==
    /\ pc = "pipeline_voice_check"
    /\ UNCHANGED <<jobVars, sessVars, inVars, calls, s3objs, pollVars, transcript, translated, pickVars,
                   voice_id, engine, synthVars>>
    /\ IF EmptyTranscript(transcript)
       THEN Finish(HTTPException(422, <<"Transcribe returned empty transcript (S3).">>))
       ELSE /\ pc' = "translate"
            /\ UNCHANGED result

\* _s3_save_tts_audio, then the response dict
Save ==
    /\ pc = "save"
    /\ UNCHANGED <<jobVars, sessVars, inVars, pollVars, transcript, translated, pickVars, voice_id, engine,
                   renders, audio_bytes, visemes_raw>>
    /\ mark_lines' = <<>>
    /\ calls' = calls \cup {CallRec("s3.put_object", NoText, None, None, TtsKey, NoLang)}
    /\ \/ /\ s3objs' = s3objs \cup {TtsKey}
          /\ Finish(Return(Response(PresignedUrl(TtsKey), SourceText)))
       \/ /\ UNCHANGED s3objs
          /\ \E m \in ExcMsgs : Finish(ProviderError("s3.put_object", m))

\* ------------------------------------------------------------ the system
Genders == {None, "MALE"}
NeuralOnlyArgs == {None, "False"}
SourceLangs == {"en-US"}
TargetLangs == {"en-US", "ms-MY"}

BaseReq == [text |-> <<>>, bucket |-> "", key |-> "", current_lang |-> "en-US",
            target_lang |-> "en-US", user_gender |-> None, neural_only |-> None,
            include_visemes_raw |-> FALSE, return_transcript |-> FALSE,
            content_mib |-> 0, ext |-> ".bin"]

\* pipeline_text's arguments; include_visemes_raw keeps its default, which no
\* caller in the repository overrides
TextRequests ==
    {[BaseReq EXCEPT !.text = t, !.current_lang = cl, !.target_lang = tl,
                     !.user_gender = g, !.neural_only = n, !.return_transcript = tr] :
        t \in Texts(MaxTextLen), cl \in SourceLangs, tl \in TargetLangs,
        g \in Genders, n \in NeuralOnlyArgs, tr \in BOOLEAN}

\* pipeline_voice as routes.py speak_voice_from_s3 calls it: the other
\* arguments keep their defaults
VoiceRequests ==
    {[BaseReq EXCEPT !.bucket = b, !.key = k, !.current_lang = cl, !.target_lang = tl,
                     !.return_transcript = tr] :
        b \in {"", "bkt"}, k \in {"", "in.wav"}, cl \in {"", "en-US"}, tl \in TargetLangs,
        tr \in BOOLEAN}

AudioRequests ==
    {[BaseReq EXCEPT !.content_mib = c, !.ext = e, !.current_lang = cl] :
        c \in {0, 1, MAX_AUDIO_MIB + 1}, e \in {".bin", ".wav"}, cl \in {"", "en-US"}}

TranslateRequests ==
    {[BaseReq EXCEPT !.text = t, !.current_lang = cl, !.target_lang = tl] :
        t \in Texts(MaxTextLen), cl \in SourceLangs, tl \in TargetLangs}

\* the entry points and their arguments
Start(o, r, at) == [op |-> o, req |-> r, pc |-> at]

Starts ==
    {Start("pipeline_text", r, "pipeline_text") : r \in TextRequests}
    \cup {Start("pipeline_voice", r, "transcribe_s3") : r \in VoiceRequests}
    \cup {Start("transcribe_audio", r, "transcribe_audio") : r \in AudioRequests}
    \cup {Start("translate_text_bedrock", r, "translate") : r \in TranslateRequests}

\* no invocation of transcribe_s3 has begun
Invocations == 1..NumInvocations

NoInvocation ==
    /\ jpc = [i \in Invocations |-> "transcribe_s3"]
    /\ job = [i \in Invocations |-> <<>>]
    /\ jkey = [i \in Invocations |-> <<>>]
    /\ jdoc = [i \in Invocations |-> <<>>]
    /\ jdeleted = [i \in Invocations |-> <<>>]
    /\ jstatus = [i \in Invocations |-> "NONE"]

\* db.sessions holds no document and no request is in flight
EndRequests == 1..NumEndRequests
Users == {"u1", "u2"}
NoDoc == [found |-> FALSE, ended_at |-> 0]

NoSession ==
    /\ session = [exists |-> FALSE, user_id |-> "", ended_at |-> 0]
    /\ rpc = [r \in EndRequests |-> "idle"]
    /\ ruser = [r \in EndRequests |-> ""]
    /\ rsess = [r \in EndRequests |-> NoDoc]
    /\ rresult = [r \in EndRequests |-> ""]
    /\ ended_writes = 0
    /\ now = 1

\* no request is being served: services.py keeps nothing between two calls
Idle ==
    /\ op = "idle"
    /\ req = BaseReq
    /\ pc = "idle"
    /\ result = NoResult
    /\ calls = {}
    /\ s3objs = {}
    /\ elapsed = 0
    /\ pollAt = 0
    /\ pollSeen = {}
    /\ in_key = NoKey
    /\ out_key = NoKey
    /\ transcript = <<>>
    /\ translated = <<>>
    /\ catalog = <<>>
    /\ lv = NoList
    /\ pool = <<>>
    /\ probe_i = 0
    /\ voice_id = None
    /\ engine = None
    /\ renders = <<>>
    /\ audio_bytes = [bytes |-> "", engine |-> None]
    /\ mark_lines = <<>>
    /\ visemes_raw = <<>>

Init ==
    /\ Idle
    /\ fetched = FALSE
    /\ NoInvocation
    /\ bucket = {}
    /\ NoSession

\* an entry point is called
NextRequest ==
    /\ pc = "idle"
    /\ \E s \in Starts : op' = s.op /\ req' = s.req /\ pc' = s.pc
    /\ UNCHANGED <<fetched, result, calls, s3objs, pollVars, transcript, translated,
                   pickVars, voice_id, engine, synthVars, jobVars, sessVars>>

\* the call is over and its locals are gone; the next request comes sooner or
\* later than a catalog TTL after the last listing that returned voices
RequestEnds ==
    /\ pc = "done"
    /\ fetched' \in IF fetched \/ voice_id # None THEN BOOLEAN ELSE {FALSE}
    /\ op' = "idle"
    /\ req' = BaseReq
    /\ pc' = "idle"
    /\ result' = NoResult
    /\ calls' = {}
    /\ s3objs' = {}
    /\ elapsed' = 0
    /\ pollAt' = 0
    /\ pollSeen' = {}
    /\ in_key' = NoKey
    /\ out_key' = NoKey
    /\ transcript' = <<>>
    /\ translated' = <<>>
    /\ catalog' = <<>>
    /\ lv' = NoList
    /\ pool' = <<>>
    /\ probe_i' = 0
    /\ voice_id' = None
    /\ engine' = None
    /\ renders' = <<>>
    /\ audio_bytes' = [bytes |-> "", engine |-> None]
    /\ mark_lines' = <<>>
    /\ visemes_raw' = <<>>
    /\ UNCHANGED <<jobVars, sessVars>>

Next ==
    \/ TranscribeAudioBegin
    \/ TranscribeS3Begin
    \/ StartJob
    \/ LoopCheck
    \/ PollReturn
    \/ Sleep
    \/ ListResult
    \/ AfterLoop
    \/ GetResult
    \/ PipelineTextBegin
    \/ PipelineVoiceCheck
    \/ Translate
    \/ PickVoiceBegin
    \/ DescribeVoices
    \/ BuildPool
    \/ Probe
    \/ Audio
    \/ AudioRetry
    \/ Marks
    \/ Save
    \/ NextRequest
    \/ RequestEnds

Spec == Init /\ [][Next]_vars

\* ---------------------------------------------------------------------------
\* transcribe_s3 called concurrently: the routes run it in the thread pool, so
\* invocations interleave at every provider call
\* ---------------------------------------------------------------------------

\* uuid.uuid4().hex, shortened to two digits
HexDigits == {"0", "1"}
Uuids == {<<a, b>> : a \in HexDigits, b \in HexDigits}

\* f"job-{uuid.uuid4().hex}"
JobName(u) == <<"job-">> \o u

\* the document the provider writes for a job under OutputBucketName
ResultKey(name) == name \o <<".json">>

\* a document an earlier job left behind
LeftOver == ResultKey(<<"job-", "f", "f">>)

\* s3.list_objects_v2(Prefix=p) lists k
HasPrefix(k, p) == Len(p) <= Len(k) /\ SubSeq(k, 1, Len(p)) = p

\* obj["Key"].endswith(".json")
EndsWithJson(k) == k # <<>> /\ k[Len(k)] = ".json"

\* mutant: the listing asks for every job's documents
ListPrefixOfAllJobs(i) == <<"job-">>

\* Prefix=job_name
ListPrefix(i) == job[i]

\* the keys list_objects_v2 returns that end with .json
JsonListed(i) == {k \in bucket : HasPrefix(k, ListPrefix(i)) /\ EndsWithJson(k)}

JMove(i, to) == jpc' = [jpc EXCEPT ![i] = to]

\* job_name = f"job-{uuid.uuid4().hex}": uuid4 does not repeat a value
DrawJobName(i) ==
    /\ jpc[i] = "transcribe_s3"
    /\ \E u \in Uuids :
         /\ \A j \in Invocations : job[j] # JobName(u)
         /\ job' = [job EXCEPT ![i] = JobName(u)]
    /\ JMove(i, "start_job")
    /\ UNCHANGED <<jkey, jdoc, jdeleted, jstatus, bucket, ttsVars, sessVars>>

\* transcribe.start_transcription_job(**kwargs)
StartTranscriptionJob(i) ==
    /\ jpc[i] = "start_job"
    /\ \/ /\ jstatus' = [jstatus EXCEPT ![i] = "IN_PROGRESS"]
          /\ JMove(i, "loop")
       \/ /\ JMove(i, "raised")
          /\ UNCHANGED jstatus
    /\ UNCHANGED <<job, jkey, jdoc, jdeleted, bucket, ttsVars, sessVars>>

\* the provider finishes a job and writes its document, whenever it does
JobCompletes(i) ==
    /\ jstatus[i] = "IN_PROGRESS"
    /\ jstatus' = [jstatus EXCEPT ![i] = "COMPLETED"]
    /\ bucket' = bucket \cup {ResultKey(job[i])}
    /\ UNCHANGED <<jpc, job, jkey, jdoc, jdeleted, ttsVars, sessVars>>

\* the provider gives a job up
JobFails(i) ==
    /\ jstatus[i] = "IN_PROGRESS"
    /\ jstatus' = [jstatus EXCEPT ![i] = "FAILED"]
    /\ UNCHANGED <<jpc, job, jkey, jdoc, jdeleted, bucket, ttsVars, sessVars>>

\* one turn of the loop: get_transcription_job, or the deadline has passed
PollJob(i) ==
    /\ jpc[i] = "loop"
    /\ \/ /\ jstatus[i] = "COMPLETED"
          /\ JMove(i, "list")
       \/ /\ jstatus[i] = "FAILED"
          /\ JMove(i, "raised")
       \/ JMove(i, "raised")
    /\ UNCHANGED <<job, jkey, jdoc, jdeleted, jstatus, bucket, ttsVars, sessVars>>

\* list_objects_v2 and the scan for the first key ending with .json, in the
\* order the provider lists them; without one out_key stays None and the 504
\* is raised
ListJobObjects(i) ==
    /\ jpc[i] = "list"
    /\ IF JsonListed(i) = {}
       THEN /\ JMove(i, "raised")
            /\ UNCHANGED jkey
       ELSE /\ \E k \in JsonListed(i) : jkey' = [jkey EXCEPT ![i] = k]
            /\ JMove(i, "get")
    /\ UNCHANGED <<job, jdoc, jdeleted, jstatus, bucket, ttsVars, sessVars>>

\* s3.get_object(Key=out_key) and json.loads
GetJobObject(i) ==
    /\ jpc[i] = "get"
    /\ \/ /\ jkey[i] \in bucket
          /\ jdoc' = [jdoc EXCEPT ![i] = jkey[i]]
          /\ JMove(i, "delete")
       \/ /\ JMove(i, "raised")
          /\ UNCHANGED jdoc
    /\ UNCHANGED <<job, jkey, jdeleted, jstatus, bucket, ttsVars, sessVars>>

\* _s3_delete(out_key), which swallows a failure, and the return
DeleteJobObject(i) ==
    /\ jpc[i] = "delete"
    /\ jdeleted' = [jdeleted EXCEPT ![i] = jkey[i]]
    /\ bucket' \in {bucket \ {jkey[i]}, bucket}
    /\ JMove(i, "returned")
    /\ UNCHANGED <<job, jkey, jdoc, jstatus, ttsVars, sessVars>>

JobsInit ==
    /\ Idle
    /\ fetched = FALSE
    /\ NoSession
    /\ NoInvocation
    /\ bucket \in {{}, {LeftOver}}

JobsNext ==
    \E i \in Invocations :
       \/ DrawJobName(i)
       \/ StartTranscriptionJob(i)
       \/ JobCompletes(i)
       \/ JobFails(i)
       \/ PollJob(i)
       \/ ListJobObjects(i)
       \/ GetJobObject(i)
       \/ DeleteJobObject(i)

JobsSpec == JobsInit /\ [][JobsNext]_vars

\* ---------------------------------------------------------------------------
\* _pick_voice on its own, its loops scheduled until they end
\* ---------------------------------------------------------------------------

PickRequests ==
    {[BaseReq EXCEPT !.target_lang = tl, !.user_gender = g, !.neural_only = n] :
        tl \in TargetLangs, g \in Genders, n \in NeuralOnlyArgs}

PickInit ==
    /\ op = "_pick_voice"
    /\ req \in PickRequests
    /\ pc = "pick_voice"
    /\ fetched = FALSE
    /\ result = NoResult
    /\ calls = {}
    /\ s3objs = {}
    /\ elapsed = 0
    /\ pollAt = 0
    /\ pollSeen = {}
    /\ in_key = NoKey
    /\ out_key = NoKey
    /\ transcript = <<>>
    /\ translated = <<>>
    /\ catalog = <<>>
    /\ lv = NoList
    /\ pool = <<>>
    /\ probe_i = 0
    /\ voice_id = None
    /\ engine = None
    /\ renders = <<>>
    /\ audio_bytes = [bytes |-> "", engine |-> None]
    /\ mark_lines = <<>>
    /\ visemes_raw = <<>>
    /\ NoInvocation
    /\ bucket = {}
    /\ NoSession

PickNext ==
    \/ PickVoiceBegin
    \/ DescribeVoices
    \/ BuildPool
    \/ Probe

\* the thread runs and every describe_voices call answers or raises
PickSpec == PickInit /\ [][PickNext]_vars /\ WF_vars(DescribeVoices)

\* ---------------------------------------------------------------------------
\* the session routes: coroutines on one event loop, which interleave at every
\* await
\* ---------------------------------------------------------------------------

\* start_session: create_session inserts the document with ended_at None
start_session(u) ==
    /\ ~session.exists
    /\ session' = [exists |-> TRUE, user_id |-> u, ended_at |-> 0]
    /\ UNCHANGED <<rpc, ruser, rsess, rresult, ended_writes, now, ttsVars, jobVars>>

\* POST /{session_id}/end arrives from user u
EndRequestArrives(r, u) ==
    /\ rpc[r] = "idle"
    /\ ruser' = [ruser EXCEPT ![r] = u]
    /\ rpc' = [rpc EXCEPT ![r] = "find_one"]
    /\ UNCHANGED <<session, rsess, rresult, ended_writes, now, ttsVars, jobVars>>

\* db.sessions.find_one({"_id": session_id, "user_id": current_user["_id"]})
FindOne(u) ==
    IF session.exists /\ session.user_id = u
    THEN [found |-> TRUE, ended_at |-> session.ended_at]
    ELSE NoDoc

\* the two rejections of end_session, "" when neither applies
Rejection(sess) ==
    IF ~sess.found THEN "Session not found"
    ELSE IF sess.ended_at # 0 THEN "Session already ended"
    ELSE ""

\* end_session, from the answer of find_one to the next await
end_session_find_one(r) ==
    /\ rpc[r] = "find_one"
    /\ LET sess == FindOne(ruser[r]) IN
         /\ rsess' = [rsess EXCEPT ![r] = sess]
         /\ IF Rejection(sess) # ""
            THEN /\ rresult' = [rresult EXCEPT ![r] = Rejection(sess)]
                 /\ rpc' = [rpc EXCEPT ![r] = "done"]
            ELSE /\ rpc' = [rpc EXCEPT ![r] = "update_one"]
                 /\ UNCHANGED rresult
    /\ UNCHANGED <<session, ruser, ended_writes, now, ttsVars, jobVars>>

\* crud.end_session: update_one({"_id": session_id}, {"$set": {"ended_at": now}}),
\* then success()
end_session_update_one(r) ==
    /\ rpc[r] = "update_one"
    /\ session' = IF session.exists THEN [session EXCEPT !.ended_at = now] ELSE session
    /\ ended_writes' = IF session.exists THEN ended_writes + 1 ELSE ended_writes
    /\ now' = now + 1
    /\ rresult' = [rresult EXCEPT ![r] = "success"]
    /\ rpc' = [rpc EXCEPT ![r] = "done"]
    /\ UNCHANGED <<ruser, rsess, ttsVars, jobVars>>

SessionInit ==
    /\ Idle
    /\ fetched = FALSE
    /\ NoInvocation
    /\ bucket = {}
    /\ NoSession

SessionNext ==
    \/ \E u \in Users : start_session(u)
    \/ \E r \in EndRequests, u \in Users : EndRequestArrives(r, u)
    \/ \E r \in EndRequests : end_session_find_one(r)
    \/ \E r \in EndRequests : end_session_update_one(r)

SessionSpec == SessionInit /\ [][SessionNext]_vars


\* =============================================================== claims
Done == pc = "done"

Called(api) == \E c \in calls : c.api = api

PollyCalled == \E c \in calls : c.api \in {"polly.describe_voices",
                                           "polly.synthesize_speech:probe",
                                           "polly.synthesize_speech:audio",
                                           "polly.synthesize_speech:marks"}

TtsWritten == \E c \in calls : c.api = "s3.put_object" /\ c.key = TtsKey

\* transcribe_s3 returned a transcript: only its return path deletes the result document
TranscribeReturned == DeleteCall(<<job_name, ".json">>) \in calls

TimedOut == result.kind = "HTTPException" /\ result.status = 504

\* C1: a job whose polls all answer a non-terminal status ends the stage with
\* the timed-out failure, and no status poll is issued and no sleep is under way
\* later than TRANSCRIBE_WAIT_TIMEOUT + TRANSCRIBE_POLL_INTERVAL after the loop
\* started.
C1_TimeoutWithinDeadlinePlusInterval ==
    /\ (Done /\ pollSeen # {} /\ pollSeen \subseteq PendingStatuses) => TimedOut
    /\ pc = "poll" => pollAt <= TRANSCRIBE_WAIT_TIMEOUT + TRANSCRIBE_POLL_INTERVAL
    /\ pc = "sleep" => elapsed + TRANSCRIBE_POLL_INTERVAL
                           <= TRANSCRIBE_WAIT_TIMEOUT + TRANSCRIBE_POLL_INTERVAL

\* C2: transcribe_audio, once its input is in object storage (the job start
\* was reached), has issued the delete of that input on every exit.
C2_InputDeletedOnEveryExit ==
    (op = "transcribe_audio" /\ Done /\ StartJobCall \in calls)
        => DeleteCall(in_key) \in calls

\* C3: pipeline_voice whose transcription returned the empty transcript fails
\* with the 422 recognition failure, and has made no translation call, no
\* voice listing, no synthesis call and no write of synthesized audio.
C3_EmptyTranscriptAborts ==
    (op = "pipeline_voice" /\ TranscribeReturned /\ transcript = <<>>)
        => /\ ~Called("bedrock.converse")
           /\ ~PollyCalled
           /\ ~TtsWritten
           /\ pc \in {"pipeline_voice_check", "done"}
           /\ Done => result = HTTPException(422,
                                   <<"Transcribe returned empty transcript (S3).">>)

C3_Witness ==
    /\ op = "pipeline_voice" /\ TranscribeReturned /\ transcript = <<>> /\ Done
    /\ result.status = 422

\* C4: _pick_voice never raises: with an empty catalog, or with every
\* describe_voices failing, it still returns a voice and a tier.
C4_PickVoiceNeverFails ==
    result # HTTPException(422, <<"No Polly voices available.">>)

\* C5: every marker render is issued with the text, the voice id and the engine
\* of the audio render that produced the audio (the render right before it).
C5_MarksMatchAudioRender ==
    \A i \in 1..Len(renders) :
        renders[i].kind = "marks"
            => /\ i > 1
               /\ renders[i - 1].kind = "audio"
               /\ renders[i].text = renders[i - 1].text
               /\ renders[i].voice = renders[i - 1].voice
               /\ renders[i].engine = renders[i - 1].engine

RendersOf(kind) == {i \in 1..Len(renders) : renders[i].kind = kind}

SynthesisFailed ==
    Done /\ result.kind = "Exception" /\ result.detail[1] = "polly.synthesize_speech"

\* C6: a render rejected at the neural tier is retried once at standard before
\* the stage fails (so the render the stage fails on is a standard one), a
\* render at standard is never followed by another render of its kind, and no
\* kind of render is attempted more than twice.
C6_OneRetryAtStandard ==
    /\ SynthesisFailed => renders[Len(renders)].engine = "standard"
    /\ \A i, j \in 1..Len(renders) :
           (i < j /\ renders[i].kind = renders[j].kind) => renders[i].engine # "standard"
    /\ \A kind \in {"audio", "marks"} : Cardinality(RendersOf(kind)) <= 2

\* C7: translate_text_bedrock with the empty text returns the empty text and
\* never calls the translation provider.
C7_EmptyTextNoProviderCall ==
    (op = "translate_text_bedrock" /\ req.text = <<>>)
        => /\ ~Called("bedrock.converse")
           /\ Done => result = Return(<<>>)

C7_Witness == op = "translate_text_bedrock" /\ req.text = <<>> /\ Done

\* C8: translate_text_bedrock with a target language outside the supported
\* targets returns its input text and never calls the translation provider.
C8_UnsupportedTargetReturnsInput ==
    (op = "translate_text_bedrock" /\ req.target_lang \notin TARGET_LANGUAGES)
        => /\ ~Called("bedrock.converse")
           /\ Done => result = Return(req.text)

\* C9: pipeline_text with current_lang = target_lang skips the translation:
\* no provider call, translated_text = source_text, and the result has a
\* non-empty audio reference and at least one timeline event.
C9_SameLanguageSkipsTranslation ==
    (op = "pipeline_text" /\ req.current_lang = req.target_lang)
        => /\ ~Called("bedrock.converse")
           /\ (Done /\ result.kind = "return")
                 => /\ result.value.translated_text = result.value.source_text
                    /\ result.value.s3_url # <<>>
                    /\ Len(result.value.visemes_mapped) >= 1

ListedFor(lang) ==
    {catalog[i].id : i \in {j \in 1..Len(catalog) : catalog[j].language_code = lang}}

TerminalStatuses == {"COMPLETED", "FAILED"}

FailedWithReason ==
    \E reason \in FailureReasons :
        result = HTTPException(422, <<"Transcription failed: ", reason>>)

\* C12: the timed-out failure is raised only when the deadline has passed and
\* no poll saw a terminal status; a poll that saw FAILED ends the stage with
\* the failed failure carrying the provider's reason; a stage that saw
\* COMPLETED never ends with the timed-out failure.
C12_TimeoutOnlyWithoutTerminalStatus ==
    /\ (Done /\ TimedOut) => /\ pollSeen \cap TerminalStatuses = {}
                             /\ elapsed >= TRANSCRIBE_WAIT_TIMEOUT
    /\ (Done /\ "FAILED" \in pollSeen) => FailedWithReason
    /\ "COMPLETED" \in pollSeen => ~TimedOut

\* a text that is empty or all spaces
Blank(text) == \A i \in 1..Len(text) : text[i] = " "

\* C13: pipeline_text with an empty, whitespace-only or over-length text ends
\* with the 400 validation error and makes no external call at all.
C13_InvalidTextRejectedBeforeAnyCall ==
    (op = "pipeline_text" /\ (Blank(req.text) \/ Len(req.text) > MAX_TTS_TEXT_LEN))
        => /\ calls = {}
           /\ renders = <<>>
           /\ s3objs = {}
           /\ pc \in {"pipeline_text", "done"}
           /\ Done => (result.kind = "HTTPException" /\ result.status = 400)

C13_Witness ==
    /\ op = "pipeline_text" /\ Done
    /\ ~Blank(req.text) /\ Len(req.text) = MAX_TTS_TEXT_LEN + 1
    /\ result.status = 400

TranslationFailed ==
    /\ Done /\ result.kind = "HTTPException" /\ result.status = 500
    /\ result.detail[1] = "Translation failed via Bedrock: "

\* C14: when the translation call failed no voice is listed or probed, nothing
\* is rendered and no audio is written; when a render failed no audio is
\* written; the audio is written only after an audio render delivered bytes
\* and the marker render that follows it was issued and did not fail.
C14_StageFailureAbortsPipeline ==
    /\ TranslationFailed => (~PollyCalled /\ renders = <<>> /\ ~TtsWritten)
    /\ SynthesisFailed => ~TtsWritten
    /\ TtsWritten => /\ audio_bytes.bytes \in AudioPayloads
                     /\ renders # <<>>
                     /\ renders[Len(renders)].kind = "marks"
                     /\ RendersOf("audio") # {}
                     /\ ~SynthesisFailed
                     /\ ~TranslationFailed

C14_Witness ==
    /\ op = "pipeline_text" /\ SynthesisFailed
    /\ Len(renders) = 2
    /\ renders[1].kind = "audio" /\ renders[2].kind = "audio"
    /\ ~TtsWritten

\* ------------------------------------------------------------ the routes
StatusText(code) == CASE code = 400 -> "400" [] code = 413 -> "413"
                      [] code = 422 -> "422" [] code = 500 -> "500"
                      [] code = 504 -> "504"

\* str(e) of what a pipeline raised: "<status>: <detail>" for an HTTPException,
\* the provider's message for any other exception
ExcStr(r) == IF r.kind = "HTTPException" THEN <<StatusText(r.status), ": ">> \o r.detail
             ELSE <<r.detail[2]>>

RoutePrefix == IF op = "pipeline_text" THEN "text pipeline failed: "
               ELSE "voice-s3 pipeline failed: "

\* speak_text / speak_voice_from_s3: `except Exception as e: raise
\* HTTPException(status_code=500, detail=f"... pipeline failed: {e}")`
RouteResponse(r) == IF r.kind = "return" THEN r
                    ELSE HTTPException(500, <<RoutePrefix>> \o ExcStr(r))

\* the run that differs only in the message of the provider's exception
OtherMsg(part) == IF part \in ExcMsgs THEN CHOOSE m \in ExcMsgs : m # part ELSE part

TwinResult == [result EXCEPT !.detail = [i \in 1..Len(result.detail) |->
                                             OtherMsg(result.detail[i])]]

\* C15: what the caller of /tts/speak/text or /tts/speak/voice-s3 gets for a
\* failed pipeline is the same in the run whose provider exception carries the
\* other message (the twin run is a run too: the message is the provider's
\* free choice in the step that fails).
C15_CallerErrorIndependentOfProviderText ==
    (Done /\ op \in {"pipeline_text", "pipeline_voice"} /\ result.kind # "return")
        => RouteResponse(result) = RouteResponse(TwinResult)

FetchCalls == {c \in calls : c.api = "polly.describe_voices"}

\* the listings asked for: the LanguageCode filters, <<"">> for the whole catalog
Listed == {c.lang : c \in FetchCalls}

\* C16: a request that follows a listing that returned voices, within the TTL,
\* calls describe_voices not at all; a request without such a listing behind it
\* asks for one listing only, and by the time it has its voice that listing is
\* the whole catalog.
C16_CatalogCachedWithTtl ==
    /\ fetched => FetchCalls = {}
    /\ ~fetched => /\ Cardinality(Listed) <= 1
                   /\ voice_id # None => Listed = {<<"">>}

Returned == Done /\ result.kind = "return" /\ op \in {"pipeline_text", "pipeline_voice"}

\* C17: a returned result has the transcript field exactly when
\* return_transcript is set; the field then equals source_text, which is the
\* input text in pipeline_text and the transcript of the transcription stage
\* in pipeline_voice.
C17_TranscriptFieldWhenRequested ==
    Returned =>
        /\ "transcript" \in result.value.has <=> req.return_transcript
        /\ req.return_transcript =>
              /\ result.value.transcript = result.value.source_text
              /\ op = "pipeline_text" => result.value.transcript = req.text
              /\ op = "pipeline_voice" => result.value.transcript = transcript

C17_Witness ==
    /\ Returned /\ op = "pipeline_text" /\ req.return_transcript
    /\ req.text = <<"a", " ">>
    /\ result.value.transcript = <<"a", " ">>
    /\ result.value.translated_text # <<"a", " ">>

\* the lines of the stream that json.loads accepts and that have the type
WellFormed(type) ==
    {i \in 1..Len(mark_lines) : mark_lines[i].json /\ mark_lines[i].type = type}

EventOf(line) == [time_ms |-> line.time, viseme |-> line.value]

\* C18: when the marker render has returned, every word marker of the
\* provider's stream has its event (its time and its value) in the output.
C18_WordMarkersPassThrough ==
    pc = "save" =>
        \A i \in WellFormed("word") :
            \E j \in 1..Len(visemes_raw) : visemes_raw[j] = EventOf(mark_lines[i])

\* C19: when the marker render has returned, its output is the well-formed
\* viseme lines of the stream, each once and in the order of the stream: there
\* is a strictly increasing map of the output positions onto those lines. A
\* line json.loads rejects takes nothing away, and times that do not decrease
\* in the stream do not decrease in the output.
C19_VisemesInEmissionOrder ==
    pc = "save" =>
        /\ Len(visemes_raw) = Cardinality(WellFormed("viseme"))
        /\ \E f \in [1..Len(visemes_raw) -> 1..Len(mark_lines)] :
              /\ \A j, k \in 1..Len(visemes_raw) : j < k => f[j] < f[k]
              /\ \A j \in 1..Len(visemes_raw) :
                    /\ f[j] \in WellFormed("viseme")
                    /\ visemes_raw[j] = EventOf(mark_lines[f[j]])
        /\ (\A i, k \in WellFormed("viseme") :
                i < k => mark_lines[i].time <= mark_lines[k].time)
              => \A j, k \in 1..Len(visemes_raw) :
                    j < k => visemes_raw[j].time_ms <= visemes_raw[k].time_ms

C19_Witness ==
    /\ pc = "save"
    /\ mark_lines = <<MarkLine(FALSE, "", 0, ""), MarkLine(TRUE, "viseme", 2, "zz")>>
    /\ visemes_raw = <<[time_ms |-> 2, viseme |-> "zz"]>>

\* C20: once a status poll has answered COMPLETED or FAILED, no status poll is
\* issued any more and what the stage has seen of the job does not change
\* until the stage has returned; at most one terminal status is ever seen.
C20_NoPollAfterTerminalStatus ==
    /\ [](Cardinality(pollSeen \cap TerminalStatuses) <= 1)
    /\ [][pollSeen \cap TerminalStatuses # {}
             => (pc' # "poll" /\ pollSeen' \in {pollSeen, {}})]_vars

C20_Witness ==
    /\ pollSeen = {"IN_PROGRESS", "COMPLETED"}
    /\ pc = "get_result"
    /\ elapsed > TRANSCRIBE_POLL_INTERVAL

\* _pick_voice has its candidates: the locale loop is over
Selected == pc \in {"build_pool", "probe"}

Queried(q) == \E c \in FetchCalls : c.lang = <<q>>

\* C21: the candidates come from the listing of the first locale of
\* [target_lang] + near locales that is not empty: no later locale is asked for,
\* the whole catalog is used only after every locale was asked for and none
\* gave a voice, and when no unfiltered call was made the candidates are the
\* catalog's voices of that locale and the catalog has none for the earlier ones.
C21_FirstNonEmptyLocale ==
    Selected =>
        /\ lv.li \in 1..(Len(Locales) + 1)
        /\ \A c \in FetchCalls :
              \/ c.lang = <<"">>
              \/ \E k \in 1..Len(Locales) : k <= lv.li /\ c.lang = <<Locales[k]>>
        /\ lv.li <= Len(Locales) => (lv.out # <<>> /\ Queried(Locales[lv.li]))
        /\ lv.li = Len(Locales) + 1
              => (Queried("") /\ \A k \in 1..Len(Locales) : Queried(Locales[k]))
        /\ ~Queried("")
              => /\ lv.out = VoicesOf(catalog, Locales[lv.li])
                 /\ \A k \in 1..Len(Locales) :
                       k < lv.li => VoicesOf(catalog, Locales[k]) = <<>>

C21_Witness ==
    /\ pc = "build_pool" /\ req.target_lang = "en-US"
    /\ lv.li = 2 /\ lv.lang = "en-GB"
    /\ ~Queried("")
    /\ Len(lv.out) = 1 /\ lv.out[1].language_code = "en-GB"

\* the candidates of the gender, compared without case
OfGender(g) ==
    {i \in 1..Len(lv.out) :
        \/ g \in {"MALE", "male", "Male"} /\ lv.out[i].gender \in {"MALE", "male", "Male"}
        \/ g \in {"FEMALE", "female", "Female"}
              /\ lv.out[i].gender \in {"FEMALE", "female", "Female"}}

Members(seq) == {seq[i] : i \in 1..Len(seq)}

\* C22: with a user_gender that some candidate has, the pool is exactly the
\* candidates of that gender; without a user_gender, or when no candidate has
\* it, the pool is all the candidates (so it is empty only when there is none).
C22_GenderFilter ==
    /\ pc = "probe" =>
          IF req.user_gender # None /\ OfGender(req.user_gender) # {}
          THEN /\ Members(pool) = {lv.out[i] : i \in OfGender(req.user_gender)}
               /\ Len(pool) = Cardinality(OfGender(req.user_gender))
          ELSE /\ Members(pool) = Members(lv.out)
               /\ Len(pool) = Len(lv.out)
    /\ result = EmptyPoolResult(<<>>) => lv.out = <<>>

C22_Witness ==
    /\ pc = "probe" /\ req.user_gender = "MALE"
    /\ Len(lv.out) = 3
    /\ Len(pool) = 1 /\ pool[1].gender = "Male"

\* position in the preferred list, 0 for an id that is not in it
Preferred(id) ==
    IF \E i \in 1..Len(_DEFAULT_PRIORITY) : _DEFAULT_PRIORITY[i] = id
    THEN CHOOSE i \in 1..Len(_DEFAULT_PRIORITY) : _DEFAULT_PRIORITY[i] = id
    ELSE 0

\* a comes before b: listed before unlisted, listed by position, unlisted by id
Before(a, b) ==
    \/ Preferred(a) > 0 /\ Preferred(b) = 0
    \/ Preferred(a) > 0 /\ Preferred(b) > 0 /\ Preferred(a) < Preferred(b)
    \/ Preferred(a) = 0 /\ Preferred(b) = 0 /\ IdRank(a) < IdRank(b)

ProbeCall(id) == CallRec("polly.synthesize_speech:probe", <<".">>, id, "neural", NoKey, NoLang)

C24_ListingOnlyOfLanguage ==
    (Selected /\ lv.lang # "") =>
        /\ \A i \in 1..Len(lv.out) : lv.out[i].language_code = lv.lang
        /\ \A i, j \in 1..Len(lv.out) : i # j => lv.out[i].id # lv.out[j].id

\* C25: no exception of describe_voices leaves _list_polly_voices_by_lang, and
\* a request that follows a request that got voices still gets voices when its
\* own fetches fail (the provider has voices, so an empty listing is a failed
\* fetch).
C25_FetchFailureKeepsSnapshot ==
    /\ result.kind = "Exception" => result.detail[1] # "polly.describe_voices"
    /\ (fetched /\ Selected /\ catalog # <<>>) => lv.out # <<>>

\* the result document of invocation i's job
OwnDoc(i) == ResultKey(job[i])

\* C26: concurrent invocations of transcribe_s3 draw distinct job names, and the
\* document an invocation locates by its job-name prefix, reads and deletes is
\* the document of its own job; no invocation removes another job's document
C26_JobsDoNotInterfere ==
    /\ [](/\ \A i, j \in Invocations :
               (i # j /\ job[i] # <<>> /\ job[j] # <<>>) => job[i] # job[j]
          /\ \A i \in Invocations :
               /\ jkey[i] # <<>> => jkey[i] = OwnDoc(i)
               /\ jdoc[i] # <<>> => jdoc[i] = OwnDoc(i)
               /\ jdeleted[i] # <<>> => jdeleted[i] = OwnDoc(i))
    /\ [][\A i \in Invocations :
            (job[i] # <<>> /\ OwnDoc(i) \in bucket /\ OwnDoc(i) \notin bucket')
                => (jpc[i] = "delete" /\ jpc'[i] = "returned")]_vars

\* two invocations have each read a document while the other was running, and
\* one of them has deleted its document
C26_Witness ==
    \E i, j \in Invocations :
       /\ i # j
       /\ jpc[i] = "returned" /\ jdeleted[i] # <<>> /\ jdeleted[i] \notin bucket
       /\ jpc[j] = "delete" /\ jdoc[j] # <<>>

\* _list_polly_voices_by_lang is running for the li-th locale of _pick_voice
Listing(li) == pc = "list_voices" /\ lv.li = li

\* a step inside one run of _list_polly_voices_by_lang
SameListing == pc = "list_voices" /\ pc' = "list_voices" /\ lv'.li = lv.li

\* C27: every run of _list_polly_voices_by_lang ends, whatever the provider's
\* pages and failures; inside a run the request goes from filtered to unfiltered
\* at most once and never back, and an unfiltered request that goes on to
\* another request has appended a page, so the first unfiltered failure ends
\* the run
C27_ListingTerminates ==
    /\ \A li \in 1..(Len(_NEAR_LOCALE("en-US")) + 2) : Listing(li) ~> ~Listing(li)
    /\ [][SameListing =>
            /\ ~lv.try_specific => ~lv'.try_specific
            /\ ~lv.try_specific => /\ lv'.next_token # NoToken
                                   /\ lv'.next_token # lv.next_token
                                   /\ Len(lv'.out) > Len(lv.out)]_vars

\* a listing for a language fell back to the unfiltered request after a
\* failure and returned voices
C27_Witness ==
    /\ pc = "build_pool"
    /\ lv.lang # ""
    /\ ~lv.try_specific
    /\ lv.out # <<>>

\* invocation i of transcribe_s3 has returned or raised
Over(i) == jpc[i] \in {"returned", "raised"}

\* C28: once transcribe_s3 has returned or raised, no result document of its job
\* is in the bucket or appears there later
C28_NoResultDocumentRemains ==
    \A i \in Invocations : (Over(i) /\ job[i] # <<>>) => OwnDoc(i) \notin bucket

\* the caller's audio object, as pipeline_voice was given it
SourceAudio == <<req.bucket, req.key>>

\* the storage calls that remove or write an object
Deletes == {c \in calls : c.api = "s3.delete_object"}
Puts == {c \in calls : c.api = "s3.put_object"}

\* C29: pipeline_voice with its transcribe_s3 never deletes or overwrites the
\* caller's source audio: every delete is of the job's result document, every
\* write is of the synthesized audio under tts/out/, and no other storage call
\* than listing and reading is made
C29_SourceAudioUntouched ==
    op = "pipeline_voice" =>
        /\ \A c \in Deletes : c.key = <<job_name, ".json">> /\ c.key # SourceAudio
        /\ \A c \in Puts : c.key = TtsKey /\ c.key[1] = "tts/out/" /\ c.key # SourceAudio
        /\ \A c \in calls :
              c.api \in {"s3.delete_object", "s3.put_object", "s3.list_objects_v2",
                         "s3.get_object"} \/ c.key \in {NoKey, SourceAudio}

\* pipeline_voice returned after deleting the result document and storing the
\* synthesized audio
C29_Witness ==
    /\ op = "pipeline_voice"
    /\ pc = "done"
    /\ result.kind = "return"
    /\ Deletes # {}
    /\ Puts # {}

\* C30: under every interleaving of end requests ended_at is written at most
\* once and never changes after it was set; a request of a user who does not
\* own the session is answered not-found
C30_EndedAtWrittenOnce ==
    /\ [](/\ ended_writes <= 1
          /\ \A r \in EndRequests :
                (rpc[r] = "done" /\ session.exists /\ ruser[r] # session.user_id)
                    => rresult[r] = "Session not found")
    /\ [][session.ended_at # 0 => session'.ended_at = session.ended_at]_vars

====
